---- MODULE Spec2Model ----
(***************************************************************************)
(* The open-addressing hash table of include/hash_table.h with the probing *)
(* policies of include/policy.h.  A table is the slot vector data_, the    *)
(* live counter size_ and the occupied-cell counter cells_cnt_.  size_t is *)
(* modelled as an unsigned integer of SizeBits bits.  max_load_factor_ is  *)
(* 0.5, so x / max_load_factor_ is 2 * x and the comparison                *)
(* c > max_load_factor_ * n is 2 * c > n (the float arithmetic is exact on *)
(* the small values used here).                                            *)
(***************************************************************************)
EXTENDS Integers, Sequences, FiniteSets, TLC

\* ------------------------------------------------------------ bounds
\* the width of size_t
SizeBits == 6
\* operations that would grow the slot vector beyond MaxCap are not taken
MaxCap == 16
\* erase is not taken while the table holds MaxTombs tombstones
MaxTombs == 1

RECURSIVE Pow2(_)
Pow2(n) == IF n = 0 THEN 1 ELSE 2 * Pow2(n - 1)

\* size_type values are 0 .. SizeMax - 1
SizeMax == Pow2(SizeBits)

Keys == {1, 2, 3, 4, 5}

\* The stored value is the pair (key, mapped value) of a map (a set stores the
\* key alone).  Key 1 is inserted with either of two mapped values, the other
\* keys with one.
Vals == {1, 2}
ValsOf(k) == IF k = 1 THEN Vals ELSE {1}

\* the keys the HashMap operations try_emplace, insert_or_assign and at are
\* called with: the key with two mapped values and the key whose hash is the
\* largest size_t
MapKeys == {1, 4}

\* hints handed to the constructors, and arguments of rehash and reserve
Hints == {1, 2, 4}
RehashArgs == {0, 1, 6, 8, 16}
ReserveArgs == {0, 2, 4}

\* The hasher is a template parameter; this one collides keys 1 and 2 in a
\* table of 8 and gives key 4 the largest size_t value, as std::hash<int>
\* does for -1, and keys 3 and 4 the same residue modulo 6.
hash_(k) ==
    CASE k = 1 -> 1
      [] k = 2 -> 9
      [] k = 3 -> 3
      [] k = 4 -> SizeMax - 1
      [] OTHER -> 4

\* ------------------------------------------------------------ slots
FreeSlot == [type |-> "FREE", key |-> 0, val |-> 0]
DeletedSlot == [type |-> "DELETED", key |-> 0, val |-> 0]
DataSlot(k, v) == [type |-> "DATA", key |-> k, val |-> v]

\* std::vector<Element>(n): n default-constructed (FREE) elements
FreshData(n) == [i \in 1 .. n |-> FreeSlot]

\* a table value: the fields of HashTable plus the fault an operation ran into
\*   "none"  the operation returned
\*   "hang"  a loop that never ends
\*   "div0"  a division by zero (hash % data_.size() with an empty vector)
\*   "oob"   an access outside the slot vector
MkTable(d, s, c, f) == [data |-> d, size |-> s, cells |-> c, fault |-> f]

bucket_count(T) == Len(T.data)

\* ------------------------------------------------------------ policy.h
LinearProbing(size, start, currentIndex) ==
    ((start + currentIndex) % SizeMax) % size

\* a quadratic policy that adds the step instead of its square
QuadraticProbing_Linear(size, start, currentBase) ==
    ((start + currentBase) % SizeMax) % size

QuadraticProbing(size, start, currentBase) ==
    ((start + ((currentBase * currentBase) % SizeMax)) % SizeMax) % size

CollisionPolicy(pol, size, start, i) ==
    IF pol = "linear" THEN LinearProbing(size, start, i)
    ELSE QuadraticProbing(size, start, i)

\* ------------------------------------------------------------ probing
\* The loop  for (; data_[*it].type != FREE; ++it)  of emplace, find and
\* insert(Element&).  Stops(.., i) is the loop's exit at step i: the slot is
\* FREE, or it is DATA with an equal key.
Stops(pol, d, start, key, i) ==
    LET el == d[CollisionPolicy(pol, Len(d), start, i) + 1] IN
    el.type = "FREE" \/ (el.type = "DATA" /\ el.key = key)

\* the walk with the loop condition  type == DATA  instead of  type != FREE :
\* a tombstone ends the walk as an Empty slot does
RECURSIVE WalkFrom_StopAtTombstone(_, _, _, _, _)
WalkFrom_StopAtTombstone(pol, d, start, key, i) ==
    LET idx == CollisionPolicy(pol, Len(d), start, i) IN
    IF d[idx + 1].type # "DATA"
    THEN [res |-> "free", idx |-> idx, steps |-> i]
    ELSE IF d[idx + 1].key = key
         THEN [res |-> "found", idx |-> idx, steps |-> i]
         ELSE WalkFrom_StopAtTombstone(pol, d, start, key, i + 1)

RECURSIVE WalkFrom(_, _, _, _, _)
WalkFrom(pol, d, start, key, i) ==
    LET idx == CollisionPolicy(pol, Len(d), start, i) IN
    IF d[idx + 1].type = "FREE"
    THEN [res |-> "free", idx |-> idx, steps |-> i]
    ELSE IF d[idx + 1].type = "DATA" /\ d[idx + 1].key = key
         THEN [res |-> "found", idx |-> idx, steps |-> i]
         ELSE WalkFrom(pol, d, start, key, i + 1)

\* The step counter is a size_t: after SizeMax steps it is 0 again and the
\* walk repeats, so a walk that stops at none of the steps 0 .. SizeMax - 1
\* never stops.
Walk(pol, d, start, key) ==
    IF \E i \in 0 .. SizeMax - 1 : Stops(pol, d, start, key, i)
    THEN WalkFrom(pol, d, start, key, 0)
    ELSE [res |-> "hang", idx |-> 0, steps |-> SizeMax]

\* ------------------------------------------------------------ sizes
\* optimal_size: k starts at the top bit and moves down to the highest set
\* bit of sz; for sz = 0 no bit is set and the loop never ends (-1 here).
RECURSIVE HighBit(_, _)
HighBit(sz, k) ==
    IF k = 0 THEN 0
    ELSE IF (sz \div k) % 2 = 1 THEN k ELSE HighBit(sz, k \div 2)

optimal_size(sz) ==
    IF sz = 0 THEN -1
    ELSE (2 * HighBit(sz, SizeMax \div 2)) % SizeMax

\* ------------------------------------------------------------ rehash
RECURSIVE rehash(_, _, _), check_size(_, _), insert_element(_, _, _), ReinsertAll(_, _, _, _)

\* check_size that compares the live size, not the occupied-cell counter
check_size_BySize(pol, T) ==
    IF 2 * T.size > bucket_count(T)
    THEN rehash(pol, T, (2 * bucket_count(T)) % SizeMax)
    ELSE T

\* check_size with >= in place of > : the rehash already runs at a load of
\* exactly one half
check_size_AtHalf(pol, T) ==
    IF 2 * T.cells >= bucket_count(T)
    THEN rehash(pol, T, (2 * bucket_count(T)) % SizeMax)
    ELSE T

\* check_size: cells_cnt_ > max_load_factor() * bucket_count()
check_size(pol, T) ==
    IF 2 * T.cells > bucket_count(T)
    THEN rehash(pol, T, (2 * bucket_count(T)) % SizeMax)
    ELSE T

\* the private insert(Element&) used by rehash
insert_element(pol, T, el) ==
    LET T1 == check_size(pol, T) IN
    IF T1.fault # "none" THEN T1
    ELSE IF bucket_count(T1) = 0 THEN [T1 EXCEPT !.fault = "div0"]
    ELSE LET w == Walk(pol, T1.data, hash_(el.key) % bucket_count(T1), el.key) IN
         CASE w.res = "hang" -> [T1 EXCEPT !.fault = "hang"]
           [] w.res = "found" -> T1
           [] OTHER -> [T1 EXCEPT !.data[w.idx + 1] = el,
                                  !.size = (T1.size + 1) % SizeMax,
                                  !.cells = (T1.cells + 1) % SizeMax]

\* the loop  for (auto &el: old) if (el.type == DATA) insert(el);
ReinsertAll(pol, T, old, i) ==
    IF i > Len(old) \/ T.fault # "none" THEN T
    ELSE IF old[i].type = "DATA"
         THEN ReinsertAll(pol, insert_element(pol, T, old[i]), old, i + 1)
         ELSE ReinsertAll(pol, T, old, i + 1)

\* rehash that leaves the tombstones counted in cells_cnt_
rehash_KeepCells(pol, T, count) ==
    IF count = bucket_count(T) THEN T
    ELSE LET n == IF count < 2 * T.size THEN 2 * T.size ELSE count IN
         ReinsertAll(pol, MkTable(FreshData(n), 0, T.cells - T.size, "none"),
                     T.data, 1)

\* rehash(count): an early return for count == bucket_count(), else a fresh
\* vector of count (at least size()/max_load_factor()) elements, refilled
rehash(pol, T, count) ==
    IF count = bucket_count(T) THEN T
    ELSE LET n == IF count < 2 * T.size THEN 2 * T.size ELSE count IN
         ReinsertAll(pol, MkTable(FreshData(n), 0, 0, "none"), T.data, 1)

\* reserve: rehash(optimal_size(count / max_load_factor()))
reserve(pol, T, count) ==
    LET n == optimal_size(2 * count) IN
    IF n < 0 THEN [T EXCEPT !.fault = "hang"] ELSE rehash(pol, T, n)

\* ------------------------------------------------------------ operations
\* emplace that assigns the new value to the slot of an equal key it finds
emplace_Overwrite(pol, T, k, v) ==
    LET T1 == check_size(pol, T) IN
    IF T1.fault # "none" THEN [T |-> T1, pos |-> 0, inserted |-> FALSE]
    ELSE IF bucket_count(T1) = 0
    THEN [T |-> [T1 EXCEPT !.fault = "div0"], pos |-> 0, inserted |-> FALSE]
    ELSE LET w == Walk(pol, T1.data, hash_(k) % bucket_count(T1), k) IN
         CASE w.res = "hang" ->
                [T |-> [T1 EXCEPT !.fault = "hang"], pos |-> 0, inserted |-> FALSE]
           [] w.res = "found" ->
                [T |-> [T1 EXCEPT !.data[w.idx + 1] = DataSlot(k, v)],
                 pos |-> w.idx, inserted |-> FALSE]
           [] OTHER ->
                [T |-> [T1 EXCEPT !.data[w.idx + 1] = DataSlot(k, v),
                                  !.size = (T1.size + 1) % SizeMax,
                                  !.cells = (T1.cells + 1) % SizeMax],
                 pos |-> w.idx, inserted |-> TRUE]

\* emplace that stores a new key into the first tombstone of its probe chain
emplace_ReuseTombstone(pol, T, k, v) ==
    LET T1 == check_size(pol, T) IN
    IF T1.fault # "none" THEN [T |-> T1, pos |-> 0, inserted |-> FALSE]
    ELSE IF bucket_count(T1) = 0
    THEN [T |-> [T1 EXCEPT !.fault = "div0"], pos |-> 0, inserted |-> FALSE]
    ELSE LET n == bucket_count(T1)
             start == hash_(k) % n
             w == Walk(pol, T1.data, start, k)
             probe(i) == CollisionPolicy(pol, n, start, i)
             tombs == {i \in 0 .. n - 1 :
                          /\ T1.data[probe(i) + 1].type = "DELETED"
                          /\ \A j \in 0 .. i - 1 : T1.data[probe(j) + 1].type = "DATA"}
         IN
         CASE w.res = "hang" ->
                [T |-> [T1 EXCEPT !.fault = "hang"], pos |-> 0, inserted |-> FALSE]
           [] w.res = "found" -> [T |-> T1, pos |-> w.idx, inserted |-> FALSE]
           [] tombs # {} ->
                LET i == CHOOSE i \in tombs : TRUE IN
                [T |-> [T1 EXCEPT !.data[probe(i) + 1] = DataSlot(k, v),
                                  !.size = (T1.size + 1) % SizeMax],
                 pos |-> probe(i), inserted |-> TRUE]
           [] OTHER ->
                [T |-> [T1 EXCEPT !.data[w.idx + 1] = DataSlot(k, v),
                                  !.size = (T1.size + 1) % SizeMax,
                                  !.cells = (T1.cells + 1) % SizeMax],
                 pos |-> w.idx, inserted |-> TRUE]

\* emplace (and every insert overload, which forwards to it)
emplace(pol, T, k, v) ==
    LET T1 == check_size(pol, T) IN
    IF T1.fault # "none" THEN [T |-> T1, pos |-> 0, inserted |-> FALSE]
    ELSE IF bucket_count(T1) = 0
    THEN [T |-> [T1 EXCEPT !.fault = "div0"], pos |-> 0, inserted |-> FALSE]
    ELSE LET w == Walk(pol, T1.data, hash_(k) % bucket_count(T1), k) IN
         CASE w.res = "hang" ->
                [T |-> [T1 EXCEPT !.fault = "hang"], pos |-> 0, inserted |-> FALSE]
           [] w.res = "found" ->
                [T |-> T1, pos |-> w.idx, inserted |-> FALSE]
           [] OTHER ->
                [T |-> [T1 EXCEPT !.data[w.idx + 1] = DataSlot(k, v),
                                  !.size = (T1.size + 1) % SizeMax,
                                  !.cells = (T1.cells + 1) % SizeMax],
                 pos |-> w.idx, inserted |-> TRUE]

\* insert(first, last): emplace of each (key, value) pair of ps from the
\* i-th on, in order
RECURSIVE InsertAll(_, _, _, _)
InsertAll(pol, T, ps, i) ==
    IF i > Len(ps) \/ T.fault # "none" THEN T
    ELSE InsertAll(pol, emplace(pol, T, ps[i][1], ps[i][2]).T, ps, i + 1)

\* find: the policy is seeded with the raw hash; end() is index bucket_count
find(pol, T, key) ==
    IF bucket_count(T) = 0 THEN [fault |-> "div0", pos |-> 0]
    ELSE LET w == Walk(pol, T.data, hash_(key), key) IN
         CASE w.res = "hang" -> [fault |-> "hang", pos |-> 0]
           [] w.res = "found" -> [fault |-> "none", pos |-> w.idx]
           [] OTHER -> [fault |-> "none", pos |-> bucket_count(T)]

\* an operator++ that steps to the next slot whatever its state
NextData_NoSkip(d, i) == IF i + 1 >= Len(d) THEN Len(d) ELSE i + 1

\* HashTableIterator::operator++ from a slot inside the vector: the next
\* DATA slot in array order, or end()
RECURSIVE NextData(_, _)
NextData(d, i) ==
    IF i + 1 >= Len(d) THEN Len(d)
    ELSE IF d[i + 2].type = "DATA" THEN i + 1 ELSE NextData(d, i + 1)

\* find_begin: the first DATA slot, or end()
find_begin(d) ==
    IF Len(d) > 0 /\ d[1].type = "DATA" THEN 0 ELSE NextData(d, 0)

\* the traversal  for (it = begin(); it != end(); ++it)  continued from
\* position it: the positions visited, in order
RECURSIVE Iterate(_, _, _)
Iterate(d, it, visited) ==
    IF it >= Len(d) THEN visited
    ELSE Iterate(d, NextData(d, it), Append(visited, it))

\* the loop of operator== over lhs from position it: false at the first
\* element whose key rhs does not contain
RECURSIVE EqLoop(_, _, _, _)
EqLoop(pol, lhs, rhs, it) ==
    IF it >= bucket_count(lhs) THEN [fault |-> "none", eq |-> TRUE]
    ELSE LET f == find(pol, rhs, lhs.data[it + 1].key) IN
         IF f.fault # "none" THEN [fault |-> f.fault, eq |-> FALSE]
         ELSE IF f.pos = bucket_count(rhs) THEN [fault |-> "none", eq |-> FALSE]
         ELSE EqLoop(pol, lhs, rhs, NextData(lhs.data, it))

\* operator==(lhs, rhs): equal sizes, and rhs.contains(key) for every element
\* of lhs; the mapped values are not looked at
operator_eq(pol, lhs, rhs) ==
    IF lhs.size # rhs.size THEN [fault |-> "none", eq |-> FALSE]
    ELSE EqLoop(pol, lhs, rhs, find_begin(lhs.data))

\* erase(const_iterator pos) for a position inside the vector
erase(T, id) ==
    [T |-> [T EXCEPT !.data[id + 1] = DeletedSlot,
                     !.size = (T.size - 1) % SizeMax],
     pos |-> NextData(T.data, id)]

\* the do-while loop of erase(const key_type&), entered with it inside the
\* vector
RECURSIVE EraseLoop(_, _, _, _, _)
EraseLoop(pol, T, it, key, cnt) ==
    LET T1 == erase(T, it).T
        f == find(pol, T1, key)
    IN  IF f.fault # "none" THEN [T |-> [T1 EXCEPT !.fault = f.fault], cnt |-> cnt + 1]
        ELSE IF f.pos # bucket_count(T1) THEN EraseLoop(pol, T1, f.pos, key, cnt + 1)
        ELSE [T |-> T1, cnt |-> cnt + 1]

\* the caller's loop  for (it = begin(); it != end(); it = erase(it));
\* started at position it: the positions it visits, and the table it leaves
RECURSIVE EraseAll(_, _, _)
EraseAll(T, it, visited) ==
    IF it >= bucket_count(T) THEN [T |-> T, visited |-> visited]
    ELSE LET r == erase(T, it) IN EraseAll(r.T, r.pos, Append(visited, it))

\* the loop  for (i = first; i != last; ++i) erase(i);  of the range erase
RECURSIVE EraseRangeLoop(_, _, _)
EraseRangeLoop(T, i, last_) ==
    IF i = last_ \/ i >= bucket_count(T) THEN T
    ELSE EraseRangeLoop(erase(T, i).T, NextData(T.data, i), last_)

\* erase(first, last) for first <= last, each an Occupied slot or end(): the
\* set of its outcomes.  The result is computed first, as iterator(last) + 1.
\* For last == end() that increment steps past end() and reads the memory
\* behind the vector until something there looks like DATA: the build
\* crashes before anything is erased, or goes on, erases the range and
\* returns a position behind end() (bucket_count + 1 stands for any of them).
erase_range(T, first, last_) ==
    IF last_ >= bucket_count(T)
    THEN {[T |-> [T EXCEPT !.fault = "oob"], pos |-> bucket_count(T)],
          [T |-> [EraseRangeLoop(T, first, last_) EXCEPT !.fault = "oob"],
           pos |-> bucket_count(T) + 1]}
    ELSE {[T |-> EraseRangeLoop(T, first, last_), pos |-> NextData(T.data, last_)]}

\* clear
clear(T) == MkTable(FreshData(8), 0, 0, "none")

\* ------------------------------------------------------------ hash_map.h
\* HashMap::try_emplace: find first, emplace only when find returns end()
try_emplace(pol, T, k, v) ==
    LET f == find(pol, T, k) IN
    IF f.fault # "none"
    THEN [T |-> [T EXCEPT !.fault = f.fault], pos |-> 0, inserted |-> FALSE]
    ELSE IF f.pos # bucket_count(T)
    THEN [T |-> T, pos |-> f.pos, inserted |-> FALSE]
    ELSE emplace(pol, T, k, v)

\* the assignment  if (!res.second) res.first->second = value;  applied to
\* the result res of try_emplace
AssignIfPresent(res, v) ==
    IF res.T.fault = "none" /\ ~res.inserted
    THEN [res EXCEPT !.T.data[res.pos + 1].val = v]
    ELSE res

\* HashMap::insert_or_assign: try_emplace, then the assignment
insert_or_assign(pol, T, k, v) ==
    AssignIfPresent(try_emplace(pol, T, k, v), v)

\* HashMap::at: the mapped value, or std::out_of_range when find returns end()
at(pol, T, k) ==
    LET f == find(pol, T, k) IN
    IF f.fault # "none" THEN [res |-> f.fault, val |-> 0]
    ELSE IF f.pos = bucket_count(T) THEN [res |-> "out_of_range", val |-> 0]
    ELSE [res |-> "value", val |-> T.data[f.pos + 1].val]

\* ------------------------------------------------------------ state
VARIABLES data_, size_, cells_cnt_, policy, fault, last, live

vars == <<data_, size_, cells_cnt_, policy, fault, last, live>>

Table == MkTable(data_, size_, cells_cnt_, fault)

Last(op, arg, val, pos, ok, cnt) ==
    [op |-> op, arg |-> arg, val |-> val, pos |-> pos, ok |-> ok, cnt |-> cnt]

SetTable(T) ==
    /\ data_' = T.data
    /\ size_' = T.size
    /\ cells_cnt_' = T.cells
    /\ fault' = T.fault

\* the abstract map the table implements: the pairs inserted and not erased
LiveKeys == {p[1] : p \in live}

\* the three constructors: two size the vector with optimal_size, the
\* initializer-list one does not
CtorCap(kind, hint) ==
    IF kind = "ctor_ilist" THEN 2 * hint ELSE optimal_size(2 * hint)

\* HashTable(init, getKV, hint): the initializer-list constructor
ctor_ilist(pol, hint, init) ==
    InsertAll(pol, MkTable(FreshData(CtorCap("ctor_ilist", hint)), 0, 0, "none"),
              init, 1)

Init ==
    \E kind \in {"ctor_hint", "ctor_range", "ctor_ilist"}, hint \in Hints :
        /\ data_ = FreshData(CtorCap(kind, hint))
        /\ size_ = 0
        /\ cells_cnt_ = 0
        /\ policy = "linear"
        /\ fault = "none"
        /\ last = Last(kind, hint, 0, 0, FALSE, 0)
        /\ live = {}

\* the same constructors for a table instantiated with QuadraticProbing
InitQuad ==
    \E kind \in {"ctor_hint", "ctor_range", "ctor_ilist"}, hint \in Hints :
        /\ data_ = FreshData(CtorCap(kind, hint))
        /\ size_ = 0
        /\ cells_cnt_ = 0
        /\ policy = "quadratic"
        /\ fault = "none"
        /\ last = Last(kind, hint, 0, 0, FALSE, 0)
        /\ live = {}

Insert(k, v) ==
    /\ fault = "none"
    /\ LET r == emplace(policy, Table, k, v) IN
       /\ bucket_count(r.T) <= MaxCap
       /\ SetTable(r.T)
       /\ last' = Last("insert", k, v, r.pos, r.inserted, 0)
       /\ live' = IF r.T.fault = "none" /\ k \notin LiveKeys
                  THEN live \cup {<<k, v>>} ELSE live
    /\ UNCHANGED policy

TryEmplace(k, v) ==
    /\ fault = "none"
    /\ LET r == try_emplace(policy, Table, k, v) IN
       /\ bucket_count(r.T) <= MaxCap
       /\ SetTable(r.T)
       /\ last' = Last("try_emplace", k, v, r.pos, r.inserted, 0)
       /\ live' = IF r.T.fault = "none" /\ k \notin LiveKeys
                  THEN live \cup {<<k, v>>} ELSE live
    /\ UNCHANGED policy

\* the state after insert_or_assign(k, v) with result r
InsertOrAssignResult(k, v, r) ==
    /\ bucket_count(r.T) <= MaxCap
    /\ SetTable(r.T)
    /\ last' = Last("insert_or_assign", k, v, r.pos, r.inserted, 0)
    /\ live' = IF r.T.fault = "none"
               THEN {p \in live : p[1] # k} \cup {<<k, v>>} ELSE live

InsertOrAssign(k, v) ==
    /\ fault = "none"
    /\ InsertOrAssignResult(k, v, insert_or_assign(policy, Table, k, v))
    /\ UNCHANGED policy

\* at is const in effect: a call that returns or throws leaves no trace in the
\* state (its result is the operator at); a call that does neither leaves the
\* fault
At(k) ==
    /\ fault = "none"
    /\ LET a == at(policy, Table, k) IN
       /\ fault' = IF a.res \in {"value", "out_of_range"} THEN "none" ELSE a.res
       /\ last' = IF a.res \in {"value", "out_of_range"} THEN last
                  ELSE Last("at", k, 0, 0, FALSE, 0)
    /\ UNCHANGED <<data_, size_, cells_cnt_, policy, live>>

\* find is const: a call that returns leaves no trace in the state (its result
\* is the operator find, evaluated where it is needed); a call that does not
\* return leaves the fault
Find(k) ==
    /\ fault = "none"
    /\ LET f == find(policy, Table, k) IN
       /\ fault' = f.fault
       /\ last' = IF f.fault = "none" THEN last
                  ELSE Last("find", k, 0, 0, FALSE, 0)
    /\ UNCHANGED <<data_, size_, cells_cnt_, policy, live>>

\* erase(const_iterator) at a position that denotes an Occupied slot
ErasePos(id) ==
    /\ fault = "none"
    /\ id \in 0 .. Len(data_) - 1
    /\ data_[id + 1].type = "DATA"
    /\ cells_cnt_ - size_ < MaxTombs
    /\ LET r == erase(Table, id) IN
       /\ SetTable(r.T)
       /\ last' = Last("erase_pos", id, 0, r.pos, TRUE, 1)
       /\ live' = {p \in live : p[1] # data_[id + 1].key}
    /\ UNCHANGED policy

\* erase(const key_type&).  When find returns end(), erase(end()) is called:
\* the iterator is advanced past end() and data_[bucket_count()] is written.
\* That is undefined behaviour; the build either crashes there or goes on
\* with size_ decremented and returns 1.
EraseKey(k) ==
    /\ fault = "none"
    /\ LET f == find(policy, Table, k) IN
       IF f.fault # "none"
       THEN /\ fault' = f.fault
            /\ last' = Last("erase_key", k, 0, 0, FALSE, 0)
            /\ UNCHANGED <<data_, size_, cells_cnt_, live>>
       ELSE IF f.pos = Len(data_)
       THEN \E crash \in BOOLEAN :
            /\ fault' = "oob"
            /\ size_' = IF crash THEN size_ ELSE (size_ - 1) % SizeMax
            /\ last' = Last("erase_key", k, 0, 0, ~crash, IF crash THEN 0 ELSE 1)
            /\ UNCHANGED <<data_, cells_cnt_, live>>
       ELSE LET r == EraseLoop(policy, Table, f.pos, k, 0) IN
            /\ cells_cnt_ - size_ < MaxTombs
            /\ SetTable(r.T)
            /\ last' = Last("erase_key", k, 0, 0, r.T.fault = "none", r.cnt)
            /\ live' = {p \in live : p[1] # k}
    /\ UNCHANGED policy

Clear ==
    /\ fault = "none"
    /\ SetTable(clear(Table))
    /\ last' = Last("clear", 0, 0, 0, TRUE, 0)
    /\ live' = {}
    /\ UNCHANGED policy

Rehash(n) ==
    /\ fault = "none"
    /\ LET T1 == rehash(policy, Table, n) IN
       /\ bucket_count(T1) <= MaxCap
       /\ SetTable(T1)
       \* cnt: the tombstones the table held at the call
       /\ last' = Last("rehash", n, 0, 0, T1.fault = "none",
                       cells_cnt_ - size_)
    /\ UNCHANGED <<policy, live>>

Reserve(n) ==
    /\ fault = "none"
    /\ LET T1 == reserve(policy, Table, n) IN
       /\ bucket_count(T1) <= MaxCap
       /\ SetTable(T1)
       /\ last' = Last("reserve", n, 0, 0, T1.fault = "none", 0)
    /\ UNCHANGED <<policy, live>>

Next ==
    \/ \E k \in Keys : \E v \in ValsOf(k) : Insert(k, v)
    \/ \E k \in Keys : Find(k)
    \/ \E id \in 0 .. MaxCap - 1 : ErasePos(id)
    \/ \E k \in Keys : EraseKey(k)
    \/ Clear
    \/ \E n \in RehashArgs : Rehash(n)
    \/ \E n \in ReserveArgs : Reserve(n)

Spec == Init /\ [][Next]_vars

\* A table instantiated with QuadraticProbing, under insert, find and
\* erase(const_iterator)
NextQuad ==
    \/ \E k \in Keys : \E v \in ValsOf(k) : Insert(k, v)
    \/ \E k \in Keys : Find(k)
    \/ \E id \in 0 .. MaxCap - 1 : ErasePos(id)

SpecQuad == InitQuad /\ [][NextQuad]_vars

\* The HashMap adapter: its constructors forward to those of the table, and
\* try_emplace, insert_or_assign and at are built on find and emplace
NextMap ==
    \/ \E k \in Keys : \E v \in ValsOf(k) : Insert(k, v)
    \/ \E id \in 0 .. MaxCap - 1 : ErasePos(id)
    \/ \E k \in MapKeys : \E v \in ValsOf(k) : TryEmplace(k, v)
    \/ \E k \in MapKeys : \E v \in ValsOf(k) : InsertOrAssign(k, v)
    \/ \E k \in MapKeys : At(k)

SpecMap == Init /\ [][NextMap]_vars

\* Insert/erase churn on a table that never holds more than one element: the
\* 2-bucket table of the initializer-list constructor, an insert only into the
\* empty table, and erase(const_iterator) of the element whatever the number
\* of tombstones (MaxCap alone bounds the run).
InitChurn == Init /\ last.op = "ctor_ilist" /\ last.arg = 1

EraseAny(id) ==
    /\ fault = "none"
    /\ id \in 0 .. Len(data_) - 1
    /\ data_[id + 1].type = "DATA"
    /\ LET r == erase(Table, id) IN
       /\ SetTable(r.T)
       /\ last' = Last("erase_pos", id, 0, r.pos, TRUE, 1)
       /\ live' = {p \in live : p[1] # data_[id + 1].key}
    /\ UNCHANGED policy

ChurnInsert(k) == size_ = 0 /\ Insert(k, 1)

NextChurn ==
    \/ \E k \in Keys : ChurnInsert(k)
    \/ \E id \in 0 .. MaxCap - 1 : EraseAny(id)

SpecChurn == InitChurn /\ [][NextChurn]_vars

\* ------------------------------------------------------------ vocabulary
\* the indices of the Occupied slots, and the keys and pairs they hold
Occupied(d) == {i \in 0 .. Len(d) - 1 : d[i + 1].type = "DATA"}
KeysIn(d) == {d[i + 1].key : i \in Occupied(d)}
PairsIn(d) == {<<d[i + 1].key, d[i + 1].val>> : i \in Occupied(d)}
Tombstones(d) == {i \in 0 .. Len(d) - 1 : d[i + 1].type = "DELETED"}
IsPow2(n) == \E e \in 0 .. SizeBits : n = Pow2(e)
IsCtor(op) == op \in {"ctor_hint", "ctor_range", "ctor_ilist"}

\* ------------------------------------------------------------ properties

\* An Insert, EraseKey, ... step leaves its operation and arguments in last',
\* so a step is the operation last' names or none at all.
IsInsert == last'.op = "insert" /\ Insert(last'.arg, last'.val)
IsEraseKey == last'.op = "erase_key" /\ EraseKey(last'.arg)
IsErasePos == last'.op = "erase_pos" /\ ErasePos(last'.arg)
IsRehash == last'.op = "rehash" /\ Rehash(last'.arg)

\* the mapped values stored under key k
ValuesOf(d, k) == {p[2] : p \in {q \in PairsIn(d) : q[1] = k}}

\* find(k) returns the position of an Occupied slot that holds k
Finds(T, k) ==
    LET f == find(policy, T, k) IN
    /\ f.fault = "none"
    /\ f.pos < bucket_count(T)
    /\ T.data[f.pos + 1].type = "DATA"
    /\ T.data[f.pos + 1].key = k

\* find(k) returns the end sentinel
FindsEnd(T, k) == find(policy, T, k) = [fault |-> "none", pos |-> bucket_count(T)]

\* C1: erase(key) with a key that is not in the table returns 0, leaves size,
\* cells, bucket_count and every slot unchanged and reads no slot outside
\* 0 .. capacity-1; with a key that is present it returns 1.
C1_EraseKeyCount ==
    [][IsEraseKey =>
         IF last'.arg \in KeysIn(data_)
         THEN fault' = "none" => last'.cnt = 1
         ELSE /\ fault' = "none"
              /\ last'.cnt = 0
              /\ UNCHANGED <<data_, size_, cells_cnt_>>]_vars

\* C2: after any insert, size / bucket_count() <= 0.5.
C2_LoadFactorAfterInsert ==
    (last.op = "insert" /\ fault = "none") => 2 * size_ <= Len(data_)

\* C3: in every reachable state bucket_count is a power of two and at least 8.
C3_CapacityPow2AtLeast8 ==
    IsPow2(Len(data_)) /\ Len(data_) >= 8

\* C4: with linear probing every call of find, insert/emplace and erase(key)
\* terminates: the probe walk reaches an Empty slot or a matching Occupied
\* slot after finitely many steps.
C4_ProbeWalksTerminate ==
    policy = "linear" =>
        ~(fault = "hang" /\ last.op \in {"find", "insert", "erase_key"})

\* C5: in a table of 8 buckets filled from empty, inserting up to 4 distinct
\* keys causes no rehash, and inserting the 5th distinct key rehashes to 16, so
\* that afterwards bucket_count() = 16 and size() = 5.
C5_FifthInsertRehashes ==
    [][(/\ IsInsert
        /\ Len(data_) = 8
        /\ cells_cnt_ = size_
        /\ last'.arg \notin KeysIn(data_))
       => /\ size_ < 4 => Len(data_') = 8
          /\ size_ = 4 => (Len(data_') = 16 /\ size_' = 5)]_vars

\* C6: a table constructed with expected-size hint 4 has bucket_count 8,
\* whichever constructor is used.
C6_HintFourGivesEight ==
    (IsCtor(last.op) /\ last.arg = 4) => Len(data_) = 8

\* C7: with linear probing, after any sequence of insert, erase(position),
\* erase(key) of present keys, rehash and clear, no two Occupied slots hold
\* equal keys.
C7_Uniqueness ==
    policy = "linear" =>
        \A i, j \in Occupied(data_) :
            data_[i + 1].key = data_[j + 1].key => i = j

\* reached: a duplicate insert was refused in a table that holds two or more
\* keys and a tombstone
C7_Witness ==
    /\ last.op = "insert" /\ ~last.ok /\ fault = "none"
    /\ size_ >= 2
    /\ Tombstones(data_) # {}
    /\ \E i, j \in Occupied(data_) :
          i # j /\ hash_(data_[i + 1].key) % Len(data_) = hash_(data_[j + 1].key) % Len(data_)

\* C8: the table refines the abstract set of live keys: whenever find(k)
\* returns, it returns a non-end position holding k iff k was inserted and not
\* erased since.
C8_FindRefinesLiveSet ==
    (policy = "linear" /\ fault = "none") =>
        \A k \in Keys :
            LET f == find(policy, Table, k) IN
            f.fault = "none" =>
                /\ (f.pos # Len(data_)) <=> (k \in LiveKeys)
                /\ f.pos # Len(data_) =>
                      (data_[f.pos + 1].type = "DATA" /\ data_[f.pos + 1].key = k)

\* C9: insert(value) returns inserted = true iff no Occupied slot held an
\* equal key before the call; when true, size and cells each grow by exactly 1
\* and the value is stored in a slot that was Empty; in both cases the returned
\* position is an Occupied slot holding the key and is what find returns
\* immediately afterwards.
C9_InsertResult ==
    [][(IsInsert /\ fault' = "none") =>
         LET k == last'.arg
             pos == last'.pos
         IN  /\ last'.ok <=> (k \notin KeysIn(data_))
             /\ last'.ok =>
                   /\ size_' = size_ + 1
                   /\ cells_cnt_' = cells_cnt_ + 1
                   /\ data_'[pos + 1] = DataSlot(k, last'.val)
                   /\ Len(data_') = Len(data_) => data_[pos + 1].type = "FREE"
             /\ data_'[pos + 1].type = "DATA"
             /\ data_'[pos + 1].key = k
             /\ find(policy, Table', k) = [fault |-> "none", pos |-> pos]]_vars

\* C10 as stated: inserting a value whose key is already present mutates
\* nothing, also in states where cells exceeds half the capacity.
C10_DuplicateInsertMutatesNothing ==
    [][(IsInsert /\ last'.arg \in KeysIn(data_)) =>
         UNCHANGED <<data_, size_, cells_cnt_>>]_vars

\* C10 as amended: inserting a value whose key is already present mutates
\* nothing when cells is at most half the capacity at the call; when cells
\* exceeds half the capacity the capacity check rehashes first: bucket_count
\* doubles, the tombstones are dropped (cells = size), and size and the live
\* elements are unchanged.  In both cases inserted = false.
C10_DuplicateInsertAmended ==
    [][(IsInsert /\ last'.arg \in KeysIn(data_)) =>
         /\ fault' = "none" /\ ~last'.ok
         /\ IF 2 * cells_cnt_ <= Len(data_)
            THEN UNCHANGED <<data_, size_, cells_cnt_>>
            ELSE /\ Len(data_') = 2 * Len(data_)
                 /\ size_' = size_
                 /\ cells_cnt_' = size_
                 /\ PairsIn(data_') = PairsIn(data_)]_vars

\* reached: a duplicate insert returned from a table that still holds a
\* tombstone, so no rehash ran and the table is the one the call found
C10_Witness ==
    /\ last.op = "insert" /\ ~last.ok /\ fault = "none"
    /\ cells_cnt_ > size_
    /\ 2 * cells_cnt_ <= Len(data_)
    /\ last.arg \in KeysIn(data_)

\* C11: inserting a value whose key is already present returns
\* inserted = false, leaves size unchanged, and leaves the value stored under
\* that key equal to the previously stored value, not the new one.
C11_InsertIdempotent ==
    [][(IsInsert /\ last'.arg \in KeysIn(data_)) =>
         /\ fault' = "none"
         /\ ~last'.ok
         /\ size_' = size_
         /\ ValuesOf(data_', last'.arg) = ValuesOf(data_, last'.arg)
         /\ data_'[last'.pos + 1].key = last'.arg
         /\ data_'[last'.pos + 1].val \in ValuesOf(data_, last'.arg)]_vars

\* reached: key 1 is stored with mapped value 1 and an insert of (1, 2) was
\* refused
C11_Witness ==
    /\ last = Last("insert", 1, 2, last.pos, FALSE, 0)
    /\ fault = "none"
    /\ ValuesOf(data_, 1) = {1}

\* C12: for every key k present in the table, erase(k) returns 1, decreases
\* size by exactly 1, and a find(k) immediately afterwards returns the end
\* sentinel; every other live key remains findable.
C12_EraseThenAbsent ==
    [][(IsEraseKey /\ last'.arg \in KeysIn(data_)) =>
         /\ fault' = "none"
         /\ last'.cnt = 1
         /\ size_' = size_ - 1
         /\ FindsEnd(Table', last'.arg)
         /\ \A j \in KeysIn(data_) \ {last'.arg} :
               Finds(Table, j) => Finds(Table', j)]_vars

\* C13: after rehash(n), bucket_count is a power of two, is at least n, and
\* size / bucket_count <= 0.5.
C13_RehashCapacity ==
    (last.op = "rehash" /\ fault = "none") =>
        /\ IsPow2(Len(data_))
        /\ Len(data_) >= last.arg
        /\ 2 * size_ <= Len(data_)

\* C14: after rehash(n) returns, for any reachable state and any n, including
\* n equal to the current bucket_count, no slot is a Tombstone and
\* cells == size.
C14_RehashDropsTombstones ==
    (last.op = "rehash" /\ fault = "none") =>
        /\ Tombstones(data_) = {}
        /\ cells_cnt_ = size_

\* C14 as the code has it: rehash(n) with n = bucket_count returns at once and
\* changes nothing, tombstones included; any other n that returns leaves no
\* Tombstone and cells == size.
C14_RehashAmended ==
    [][(IsRehash /\ fault' = "none") =>
         IF last'.arg = Len(data_)
         THEN UNCHANGED <<data_, size_, cells_cnt_>>
         ELSE /\ Tombstones(data_') = {}
              /\ cells_cnt_' = size_']_vars

\* reached: a rehash to another capacity returned on a table that held a
\* tombstone and a live element
C14_Witness ==
    /\ last.op = "rehash"
    /\ last.cnt >= 1
    /\ fault = "none"
    /\ size_ >= 1
    /\ Tombstones(data_) = {}

\* C15: rehash(n), explicit or triggered by an insert, preserves content: the
\* set of live (key, value) pairs and size are the same after as before, and
\* every live key is still found by find.
C15_RehashPreservesContent ==
    [][/\ IsRehash =>
            /\ fault' = "none"
            /\ PairsIn(data_') = PairsIn(data_)
            /\ size_' = size_
            /\ \A k \in KeysIn(data_) : Finds(Table', k)
       /\ (IsInsert /\ fault' = "none" /\ Len(data_') # Len(data_)) =>
            /\ PairsIn(data_) \subseteq PairsIn(data_')
            /\ size_' = size_ + (IF last'.ok THEN 1 ELSE 0)
            /\ \A k \in KeysIn(data_) : Finds(Table', k)]_vars

\* C16: erase(position) on an Occupied slot turns exactly that slot into a
\* Tombstone, decrements size by 1, leaves cells, bucket_count and every other
\* slot unchanged, and returns the position of the next Occupied slot in array
\* order, or end; consequently the loop  it = erase(it)  from begin to end
\* visits every live element exactly once and ends with size 0.
C16_ErasePosition ==
    /\ [][IsErasePos =>
            /\ fault' = "none"
            /\ data_' = [data_ EXCEPT ![last'.arg + 1] = DeletedSlot]
            /\ size_' = size_ - 1
            /\ cells_cnt_' = cells_cnt_
            /\ LET later == {j \in Occupied(data_) : j > last'.arg} IN
               IF later = {} THEN last'.pos = Len(data_)
               ELSE /\ last'.pos \in later
                    /\ \A j \in later : last'.pos <= j]_vars
    /\ [](fault = "none" =>
            LET r == EraseAll(Table, find_begin(data_), <<>>) IN
            /\ {r.visited[n] : n \in 1 .. Len(r.visited)} = Occupied(data_)
            /\ Len(r.visited) = size_
            /\ r.T.size = 0
            /\ Occupied(r.T.data) = {}
            /\ r.T.cells = cells_cnt_
            /\ Len(r.T.data) = Len(data_))

\* reached: erase(position) returned a position beyond the next slot, having
\* skipped a slot that is not Occupied, and left a live element behind
C16_Witness ==
    /\ last.op = "erase_pos"
    /\ fault = "none"
    /\ data_[last.arg + 1].type = "DELETED"
    /\ last.pos < Len(data_)
    /\ last.pos > last.arg + 1
    /\ data_[last.pos + 1].type = "DATA"

\* the sequences of distinct keys, each paired with the mapped value 1
DistinctKeySeqs ==
    {ks \in UNION {[1 .. n -> Keys] : n \in 0 .. Cardinality(Keys)} :
        \A m, n \in DOMAIN ks : ks[m] = ks[n] => m = n}
PairSeq(ks) == [n \in DOMAIN ks |-> <<ks[n], 1>>]

\* C17: iteration from begin to end visits exactly the Occupied slots, each
\* once, in increasing slot-index order, so the number of elements visited
\* equals size; after inserting n distinct keys into an empty table it equals
\* n, with every visited key reachable via find.
C17_IterationVisitsOccupied ==
    fault = "none" =>
        /\ LET s == Iterate(data_, find_begin(data_), <<>>) IN
           /\ {s[n] : n \in 1 .. Len(s)} = Occupied(data_)
           /\ \A m, n \in 1 .. Len(s) : m < n => s[m] < s[n]
           /\ Len(s) = size_
        /\ (size_ = 0 /\ cells_cnt_ = 0) =>
              \A ks \in DistinctKeySeqs :
                 LET T == InsertAll(policy, Table, PairSeq(ks), 1)
                     s == Iterate(T.data, find_begin(T.data), <<>>)
                 IN  T.fault = "none" =>
                        /\ Len(s) = Len(ks)
                        /\ \A n \in 1 .. Len(s) : Finds(T, T.data[s[n] + 1].key)

\* the pairs of P in increasing and in decreasing key order
RECURSIVE AscSeq(_)
AscSeq(P) ==
    IF P = {} THEN <<>>
    ELSE LET p == CHOOSE q \in P : \A r \in P : q[1] <= r[1] IN
         <<p>> \o AscSeq(P \ {p})
DescSeq(P) == LET a == AscSeq(P) IN [n \in DOMAIN a |-> a[Len(a) + 1 - n]]

\* P with the other mapped value under key 1
OtherValue(P) == {IF p[1] = 1 THEN <<1, 3 - p[2]>> ELSE p : p \in P}

\* hints of the second table a comparison is made with
EqHints == {3, 4}

\* C18: equality compares values as well as keys: two map-like tables of the
\* same size are equal iff every key of one is present in the other with an
\* equal mapped value; the same keys with a different value for some key
\* compare unequal.  Checked between the table and a second one constructed
\* with 8 buckets from the same keys, with the same values and with another
\* value under key 1.
C18_EqualityComparesValues ==
    fault = "none" =>
        \A P \in {PairsIn(data_), OtherValue(PairsIn(data_))} :
            LET other == ctor_ilist(policy, 4, AscSeq(P))
                e == operator_eq(policy, Table, other)
            IN  e.fault = "none" => (e.eq <=> PairsIn(data_) = PairsIn(other.data))

\* C19: equality is independent of insertion order and layout: two tables
\* built by inserting the same set of (key, value) pairs in different orders,
\* and so possibly with different slot positions, tombstones or capacities,
\* compare equal, and equality is symmetric (A == B iff B == A).  Checked
\* between the table and second ones constructed from its live pairs in
\* increasing and in decreasing key order.
C19_EqualityIgnoresLayout ==
    fault = "none" =>
        \A hint \in EqHints :
            \A init \in {AscSeq(PairsIn(data_)), DescSeq(PairsIn(data_))} :
                LET other == ctor_ilist(policy, hint, init)
                    ab == operator_eq(policy, Table, other)
                    ba == operator_eq(policy, other, Table)
                IN  (other.fault = "none" /\ ab.fault = "none" /\ ba.fault = "none")
                        => (ab.eq /\ ba.eq)

\* a slot array d2 that differs from d only by slots that went from Empty to
\* Occupied or from Occupied to Tombstone
SlotMoves(d, d2) ==
    /\ Len(d2) = Len(d)
    /\ \A i \in 1 .. Len(d) :
          \/ d2[i] = d[i]
          \/ d[i].type = "FREE" /\ d2[i].type = "DATA"
          \/ d[i].type = "DATA" /\ d2[i].type = "DELETED"

\* the slot index i is the first Empty slot of d on the probe chain of key k
FirstEmptyOnChain(d, k, i) ==
    \E n \in 0 .. Len(d) - 1 :
        LET probe(m) == CollisionPolicy(policy, Len(d), hash_(k) % Len(d), m) IN
        /\ probe(n) = i
        /\ d[i + 1].type = "FREE"
        /\ \A m \in 0 .. n - 1 : d[probe(m) + 1].type # "FREE"

\* C20: tombstones never revert: within one slot array (between rehashes and
\* clears) a slot's state only moves Empty -> Occupied and Occupied ->
\* Tombstone; insert never stores into a Tombstone slot, so insert k, erase k,
\* insert k again leaves the original slot a Tombstone and places the value in
\* the first Empty slot in probe order after it.
C20_TombstonesNeverRevert ==
    [][/\ (IsErasePos \/ IsEraseKey) => SlotMoves(data_, data_')
       /\ (IsInsert /\ Len(data_') = Len(data_)) =>
             /\ SlotMoves(data_, data_')
             /\ Tombstones(data_) \subseteq Tombstones(data_')
             /\ (fault' = "none" /\ last'.ok) =>
                   /\ FirstEmptyOnChain(data_, last'.arg, last'.pos)
                   /\ data_' = [data_ EXCEPT ![last'.pos + 1] =
                                   DataSlot(last'.arg, last'.val)]]_vars

\* reached: a key was inserted while the first slot of its probe chain is a
\* Tombstone; the Tombstone is still there and the key sits further on
C20_Witness ==
    /\ last.op = "insert" /\ last.ok /\ fault = "none"
    /\ data_[(hash_(last.arg) % Len(data_)) + 1].type = "DELETED"
    /\ last.pos # hash_(last.arg) % Len(data_)
    /\ data_[last.pos + 1] = DataSlot(last.arg, last.val)

\* the last operation returned to its caller: it met no fault, or it is the
\* erase of an absent key in a build that survives the write past the vector
Returned == fault = "none" \/ (fault = "oob" /\ last.ok)

\* C21: in every state reachable through the public operations (insert, erase
\* by position, erase by key for present or absent keys, find, rehash, reserve,
\* clear), size <= cells <= bucket_count, size equals the number of Occupied
\* slots and cells equals the number of Occupied plus Tombstone slots.
C21_CounterInvariant ==
    Returned =>
        /\ size_ <= cells_cnt_
        /\ cells_cnt_ <= Len(data_)
        /\ size_ = Cardinality(Occupied(data_))
        /\ cells_cnt_ = Cardinality(Occupied(data_)) + Cardinality(Tombstones(data_))

\* C22: immediately after the capacity check that insert runs before probing
\* (and after any rehash it triggers), cells / bucket_count <= 0.5, so at
\* least one Empty slot exists when the probe walk for the insertion starts.
C22_EmptySlotAfterCheck ==
    [][IsInsert =>
         LET T1 == check_size(policy, Table) IN
         /\ T1.fault = "none"
         /\ bucket_count(T1) > 0
         /\ 2 * T1.cells <= bucket_count(T1)
         /\ \E i \in 1 .. bucket_count(T1) : T1.data[i].type = "FREE"]_vars

\* the slot indices the policy yields for a table of c slots from start
ProbeSet(pol, c, start) ==
    {CollisionPolicy(pol, c, start, i) : i \in 0 .. SizeMax - 1}

C24_ReserveReturns ==
    last.op = "reserve" =>
        /\ fault = "none"
        /\ 2 * last.arg <= Len(data_)

\* C25: HashMap::at(k) for a key that is absent raises an out-of-range error
\* and leaves size, cells, bucket_count and every slot unchanged; for a
\* present key it returns the mapped value without mutating the table.  (at
\* reads the table through find and writes nothing: the table it leaves is
\* the table it was called on.)
C25_AtRaisesForAbsent ==
    fault = "none" =>
        \A k \in Keys :
            LET a == at(policy, Table, k) IN
            IF k \in KeysIn(data_)
            THEN a.res = "value" /\ ValuesOf(data_, k) = {a.val}
            ELSE a.res = "out_of_range"

IsInsertOrAssign ==
    last'.op = "insert_or_assign" /\ InsertOrAssign(last'.arg, last'.val)
IsTryEmplace == last'.op = "try_emplace" /\ TryEmplace(last'.arg, last'.val)

\* C26: HashMap::insert_or_assign(k, v): afterwards find(k) is a live entry
\* whose mapped value is v; it returns inserted = true and size grows by 1 iff
\* k was absent, otherwise size is unchanged and only the mapped value of the
\* existing entry for k changes; try_emplace(k, v) on a present key changes
\* nothing and returns inserted = false.
C26_InsertOrAssign ==
    [][/\ IsInsertOrAssign =>
            /\ fault' = "none"
            /\ Finds(Table', last'.arg)
            /\ ValuesOf(data_', last'.arg) = {last'.val}
            /\ last'.ok <=> last'.arg \notin KeysIn(data_)
            /\ IF last'.arg \notin KeysIn(data_)
               THEN size_' = size_ + 1
               ELSE /\ size_' = size_
                    /\ cells_cnt_' = cells_cnt_
                    /\ data_' = [data_ EXCEPT ![last'.pos + 1].val = last'.val]
       /\ (IsTryEmplace /\ last'.arg \in KeysIn(data_)) =>
            /\ fault' = "none"
            /\ ~last'.ok
            /\ UNCHANGED <<data_, size_, cells_cnt_>>]_vars

\* C27: an insert-triggered rehash sets bucket_count to exactly twice its
\* prior value regardless of how many of the counted cells are Tombstones; so
\* a sequence of insert/erase pairs that keeps size <= 1 at all times can
\* still drive bucket_count to at least 4 times the initial capacity
\* (capacity growth is driven by cells, not by live size).
C27_InsertRehashDoubles ==
    /\ [](size_ <= 1)
    /\ [][IsInsert =>
            /\ fault' = "none"
            /\ IF 2 * cells_cnt_ > Len(data_)
               THEN Len(data_') = 2 * Len(data_)
               ELSE Len(data_') = Len(data_)]_vars

\* reached: the table holds one element, has never held more, and has 4 times
\* the buckets it was constructed with
C27_Witness ==
    /\ last.op = "insert" /\ last.ok /\ fault = "none"
    /\ size_ = 1
    /\ Len(data_) >= 4 * CtorCap("ctor_ilist", 1)

\* C28: after any sequence of public operations (construction, insert, erase,
\* clear, rehash(n) and reserve(n) with any n >= 0, including rehash(0) on an
\* empty table), bucket_count >= 1, so the 'hash mod capacity' computed by
\* insert and by the probing policy never divides by zero.
C28_NoDivisionByZero ==
    /\ fault = "none" => Len(data_) >= 1
    /\ fault # "div0"

\* the positions an iterator can denote: the Occupied slots and end()
Positions(d) == Occupied(d) \cup {Len(d)}

\* C29: range erase erase(first, last) turns exactly the Occupied slots in
\* [first, last) into Tombstones, decreases size by the number of elements
\* removed, leaves the element at last untouched, returns the position last,
\* and never reads or advances past slot index capacity, including when last
\* is the end sentinel (erase(begin(), end())).
C29_RangeErase ==
    fault = "none" =>
        \A first \in Positions(data_), last_ \in Positions(data_) :
            first <= last_ =>
                \A r \in erase_range(Table, first, last_) :
                    LET gone == {i \in Occupied(data_) : first <= i /\ i < last_} IN
                    /\ r.T.fault = "none"
                    /\ r.T.data = [i \in 1 .. Len(data_) |->
                                      IF i - 1 \in gone THEN DeletedSlot ELSE data_[i]]
                    /\ r.T.size = size_ - Cardinality(gone)
                    /\ r.pos = last_

\* C30: for every key, every reachable bucket_count c (power of two or not)
\* and every probe step i, find (which seeds the probing policy with the raw
\* hash value) and insert (which seeds it with hash mod c) examine the same
\* slot index, with fixed-width unsigned wraparound of start + i (or
\* start + i^2) taken into account; hence a key placed by insert is always on
\* the chain find walks.
C30_FindAndInsertProbeAlike ==
    Len(data_) >= 1 =>
        \A k \in Keys, i \in 0 .. SizeMax - 1 :
            CollisionPolicy(policy, Len(data_), hash_(k), i)
                = CollisionPolicy(policy, Len(data_), hash_(k) % Len(data_), i)

====
